---------------------------- MODULE Spec2Model ----------------------------
(***************************************************************************)
(* Portfolio Manager (src/app.py): the price store (positions, prices),    *)
(* the two price providers, the batch update and the overview's merge.     *)
(***************************************************************************)
EXTENDS Integers, Sequences, FiniteSets, TLC

VARIABLES
    positions,   \* table positions, in rowid order
    prices,      \* table prices, in rowid order
    pc,          \* "idle" | "loop" (inside update_prices) | "done" (it returned)
    df,          \* update_prices: the rows still to iterate
    rows,        \* update_prices: the result rows built so far
    call,        \* what update_prices was entered with: argument, listing, tables
    fetched,     \* per iterated row: its id and what its fetch answered
    fin,         \* provider call: what the outside world answers
    fout,        \* provider call: what the caller got back
    merged,      \* the overview's merged frame, as last rendered
    clock        \* the host's date, which date.today() reads

vars == <<positions, prices, pc, df, rows, call, fetched, fin, fout, merged, clock>>

storeVars == <<positions, prices, pc, df, rows, call, fetched, clock>>
fetchVars == <<fin, fout>>

----------------------------------------------------------------------------
(* Python values.  None and a present value share one shape, so that        *)
(* `x is None`, `x or y` and `if x:` can be written as the code has them.   *)

NoneV == [st |-> "none", v |-> 0, exc |-> ""]
Val(x) == [st |-> "val", v |-> x, exc |-> ""]
Raise(e) == [st |-> "raise", v |-> 0, exc |-> e]

NoneS == [st |-> "none", s |-> "", exc |-> ""]
Str(x) == [st |-> "val", s |-> x, exc |-> ""]
RaiseS(e) == [st |-> "raise", s |-> "", exc |-> e]

\* bool(x) of a float-or-None: None and 0.0 are falsy
Truthy(x) == x.st = "val" /\ x.v # 0

\* bool(x) of a str-or-None: None and "" are falsy
TruthyS(x) == x.st = "val" /\ x.s # ""

----------------------------------------------------------------------------
(* fetch_yahoo                                                              *)

ExcTypes == {"KeyError", "HTTPError"}
FeedPrices == {0, 55}

Lookups == {NoneV} \cup {Val(p) : p \in FeedPrices} \cup {Raise(e) : e \in ExcTypes}
CcyLookups == {NoneS, Str("USD")} \cup {RaiseS(e) : e \in ExcTypes}

\* t.fast_info: reading the attribute may raise, it may be falsy, or it is a
\* mapping whose .get() of each key answers a value, None, or raises
FastInfos ==
    {[access |-> a, last_price |-> NoneV, last_close |-> NoneV,
      lastPrice |-> NoneV, currency |-> NoneS] : a \in {"falsy"} \cup ExcTypes}
    \cup
    [access : {"ok"}, last_price : Lookups, last_close : Lookups,
     lastPrice : Lookups, currency : CcyLookups]

\* t.history(...) and yf.download(...): raises (also the IndexError of an
\* all-NaN Close column), an empty frame, or a frame with a last close
Frames == {NoneV} \cup {Val(p) : p \in FeedPrices} \cup {Raise(e) : e \in ExcTypes}

YahooWorlds ==
    [ctor : {""}, fast_info : FastInfos, history : Frames, download : Frames,
     info : {NoneS, Str("USD"), RaiseS("KeyError")}]
    \cup
    {[ctor |-> e, fast_info |-> CHOOSE f \in FastInfos : f.access = "falsy",
      history |-> NoneV, download |-> NoneV, info |-> NoneS] : e \in {"ValueError"}}

Tag(step, e) == "[" \o step \o ":" \o e \o "] "

\* lines 80-86: state after the fast_info attempt
\* fi.get("last_price") or fi.get("last_close") or fi.get("lastPrice"), then
\* fi.get("currency"); an exception leaves what was assigned before it
FastInfoStep(w) ==
    LET fi == w.fast_info
        base == [px |-> NoneV, cc |-> NoneS, reason |-> "", calls |-> <<"fast_info">>]
        raised(e) == [base EXCEPT !.reason = Tag("fast_info", e)]
        chain ==
            IF fi.last_price.st = "raise" THEN fi.last_price
            ELSE IF Truthy(fi.last_price) THEN fi.last_price
            ELSE IF fi.last_close.st = "raise" THEN fi.last_close
            ELSE IF Truthy(fi.last_close) THEN fi.last_close
            ELSE fi.lastPrice
    IN  IF fi.access = "falsy" THEN base
        ELSE IF fi.access # "ok" THEN raised(fi.access)
        ELSE IF chain.st = "raise" THEN raised(chain.exc)
        ELSE IF fi.currency.st = "raise"
             THEN [base EXCEPT !.px = chain, !.reason = Tag("fast_info", fi.currency.exc)]
        ELSE [base EXCEPT !.px = chain, !.cc = fi.currency]

\* a fallback that runs whether or not an earlier attempt gave a price
FrameStep_Always(s, step, frame) ==
    LET t == [s EXCEPT !.calls = Append(@, step)]
    IN  IF frame.st = "raise" THEN [t EXCEPT !.reason = @ \o Tag(step, frame.exc)]
        ELSE IF frame.st = "none" THEN t
        ELSE [t EXCEPT !.px = frame]

\* a fallback that puts its tag in front of the earlier ones
FrameStep_TagFirst(s, step, frame) ==
    IF s.px.st # "none" THEN s
    ELSE LET t == [s EXCEPT !.calls = Append(@, step)]
         IN  IF frame.st = "raise" THEN [t EXCEPT !.reason = Tag(step, frame.exc) \o @]
             ELSE IF frame.st = "none" THEN t
             ELSE [t EXCEPT !.px = frame]

\* lines 89-95 and 98-104: a fallback runs only while px is None
FrameStep(s, step, frame) ==
    IF s.px.st # "none" THEN s
    ELSE LET t == [s EXCEPT !.calls = Append(@, step)]
         IN  IF frame.st = "raise" THEN [t EXCEPT !.reason = @ \o Tag(step, frame.exc)]
             ELSE IF frame.st = "none" THEN t
             ELSE [t EXCEPT !.px = frame]

\* lines 107-112: currency best effort; its exception is swallowed
InfoStep(s, info) ==
    IF s.cc.st # "none" THEN s
    ELSE LET t == [s EXCEPT !.calls = Append(@, "info")]
         IN  IF info.st = "raise" THEN t ELSE [t EXCEPT !.cc = info]

\* lines 76-112: the three attempts and the currency lookup
YahooSteps(w) ==
    InfoStep(FrameStep(FrameStep(FastInfoStep(w), "history", w.history),
                       "download", w.download), w.info)

\* lines 75-116 without the outer handler: what the body returns or raises
YahooBody(w) ==
    IF w.ctor # "" THEN [raised |-> w.ctor]
    ELSE LET s == YahooSteps(w)
         IN  IF s.px.st # "none"
             THEN [ok |-> TRUE, price |-> s.px.v,
                   ccy |-> IF TruthyS(s.cc) THEN s.cc.s ELSE "EUR",
                   provider |-> "yahoo"]
             ELSE [ok |-> FALSE, reason |-> IF s.reason # "" THEN s.reason ELSE "no data"]

IsRaised(r) == "raised" \in DOMAIN r

\* fetch_yahoo without its outer handler
fetch_yahoo_NoHandler(w) == YahooBody(w)

\* lines 75-118
fetch_yahoo(w) ==
    LET r == YahooBody(w)
    IN  IF IsRaised(r) THEN [ok |-> FALSE, reason |-> "exception:" \o r.raised] ELSE r

\* the outside calls fetch_yahoo made, in order
YahooCalls(w) == IF w.ctor # "" THEN <<>> ELSE YahooSteps(w).calls

----------------------------------------------------------------------------
(* fetch_coingecko                                                          *)

Statuses == {200, 500}
Bodies == {"price", "not_json", "no_coin", "not_number"}

HttpWorlds ==
    {[net |-> FALSE, status |-> 0, body |-> "price", px |-> 0]}
    \cup [net : {TRUE}, status : Statuses, body : Bodies, px : FeedPrices]

\* str.upper() on the currency codes in use
Upper(s) == CASE s = "eur" -> "EUR" [] s = "usd" -> "USD" [] OTHER -> s

NoneT == <<>>

\* lines 122-128 without the handler: requests.get, raise_for_status, parse
CoingeckoBody(w, vs) ==
    IF ~w.net THEN [raised |-> "ConnectionError"]
    ELSE IF w.status >= 400 THEN [raised |-> "HTTPError"]
    ELSE IF w.body = "not_json" THEN [raised |-> "JSONDecodeError"]
    ELSE IF w.body = "no_coin" THEN [raised |-> "KeyError"]
    ELSE IF w.body = "not_number" THEN [raised |-> "TypeError"]
    ELSE [ret |-> <<w.px, Upper(vs), "coingecko">>]

fetch_coingecko(w, vs) ==
    LET r == CoingeckoBody(w, vs)
    IN  IF IsRaised(r) THEN NoneT ELSE r.ret

----------------------------------------------------------------------------
(* The store: tables positions and prices                                   *)

MaxPositions == 2
MaxSnapshots == 2

\* a column holding SQL NULL / pandas NA; the forms always store a str
SqlNull == "<NULL>"
NotNa(s) == s # SqlNull

\* Python `a or b` on str-or-None columns
OrS(a, b) == IF a # "" /\ a # SqlNull THEN a ELSE b

Names == {"BTC", "acme"}
Tickers == {"", "ACM"}
PriceSymbols == {""}

\* what the script's forms are filled with: name and ticker, and the three
\* sources its select boxes offer
Forms == {[name |-> "acme", ticker |-> "ACM"], [name |-> "BTC", ticker |-> ""]}
FormSources == {"manual", "yahoo", "coingecko"}

\* what the column price_source may hold: the store takes any string
Sources == FormSources \cup {"broker"}
Quantities == {5}
AvgCosts == {100}
ManualPrices == {120}

\* the bytes of the names in use; ORDER BY name compares them (BINARY collation)
NameBytes(n) ==
    CASE n = "BTC" -> <<66, 84, 67>>
      [] n = "acme" -> <<97, 99, 109, 101>>
      [] OTHER -> <<>>

\* memcmp order of two byte strings, the shorter first on a common prefix
RECURSIVE BytesLess(_, _)
BytesLess(a, b) ==
    IF b = <<>> THEN FALSE
    ELSE IF a = <<>> THEN TRUE
    ELSE IF Head(a) # Head(b) THEN Head(a) < Head(b)
    ELSE BytesLess(Tail(a), Tail(b))

\* the days the host clock goes through
Day1 == [year |-> 2026, month |-> 9, day |-> 30]
Day2 == [year |-> 2026, month |-> 10, day |-> 1]
Dates == {Day1, Day2}

Digit(n) == 48 + n
Pad2(n) == <<Digit(n \div 10), Digit(n % 10)>>
Pad4(n) == Pad2(n \div 100) \o Pad2(n % 100)

\* a date written without zero padding, "2026-9-30"
isoformat_Unpadded(d) ==
    LET unpad(n) == IF n < 10 THEN <<Digit(n)>> ELSE Pad2(n)
    IN  Pad4(d.year) \o <<45>> \o unpad(d.month) \o <<45>> \o unpad(d.day)

\* date.isoformat(): the bytes of "YYYY-MM-DD"
isoformat(d) == Pad4(d.year) \o <<45>> \o Pad2(d.month) \o <<45>> \o Pad2(d.day)

\* lines 34-42: INSERT INTO positions; id is the next rowid
upsert_position(tbl, row) ==
    Append(tbl, [id |-> Len(tbl) + 1, name |-> row.name, ticker |-> row.ticker,
                 quantity |-> row.quantity, avg_cost |-> row.avg_cost,
                 currency |-> row.currency, price_source |-> row.price_source,
                 price_symbol |-> row.price_symbol])

\* lines 44-48: UPDATE positions SET price_source, price_symbol WHERE id
update_position_pricesettings(tbl, position_id, price_source, price_symbol) ==
    [i \in 1..Len(tbl) |->
        IF tbl[i].id = position_id
        THEN [tbl[i] EXCEPT !.price_source = price_source, !.price_symbol = price_symbol]
        ELSE tbl[i]]

\* a listing in rowid order
fetch_positions_Unsorted(tbl) == {tbl}

\* lines 50-54: SELECT * FROM positions ORDER BY name; rows of equal name come
\* in an order SQL leaves open
fetch_positions(tbl) ==
    LET n == Len(tbl)
        sorted(f) == \A i, j \in 1..n :
            i < j => ~BytesLess(NameBytes(tbl[f[j]].name), NameBytes(tbl[f[i]].name))
        perms == {f \in [1..n -> 1..n] : (\A i, j \in 1..n : f[i] = f[j] => i = j)}
    IN  {[i \in 1..n |-> tbl[f[i]]] : f \in {g \in perms : sorted(g)}}

\* a snapshot that overwrites the symbol's row of the same day
add_price_snapshot_Replace(tbl, ticker, price, currency, source, today) ==
    LET row == [ticker |-> ticker, price |-> price, currency |-> currency,
                asof |-> isoformat(today), source |-> source]
        same == {i \in 1..Len(tbl) : tbl[i].ticker = ticker /\ tbl[i].asof = row.asof}
    IN  IF same = {} THEN Append(tbl, row)
        ELSE [i \in 1..Len(tbl) |-> IF i \in same THEN row ELSE tbl[i]]

\* lines 56-60: INSERT INTO prices, asof = date.today().isoformat()
add_price_snapshot(tbl, ticker, price, currency, source, today) ==
    Append(tbl, [ticker |-> ticker, price |-> price, currency |-> currency,
                 asof |-> isoformat(today), source |-> source])

\* SELECT ticker, MAX(asof) a FROM prices GROUP BY ticker, for one ticker
MaxAsof(tbl, t) ==
    LET as == {tbl[i].asof : i \in {j \in 1..Len(tbl) : tbl[j].ticker = t}}
    IN  CHOOSE a \in as : \A b \in as : ~BytesLess(a, b)

\* lines 62-70: the rows of prices joined to their ticker's MAX(asof)
latest_prices(tbl) ==
    LET hit == SelectSeq(tbl, LAMBDA r : r.asof = MaxAsof(tbl, r.ticker))
    IN  [i \in 1..Len(hit) |->
            [ticker |-> hit[i].ticker, price |-> hit[i].price,
             currency |-> hit[i].currency, asof |-> hit[i].asof]]

----------------------------------------------------------------------------
(* update_prices                                                            *)

\* str.lower() on the price sources in use
Lower(s) == CASE s = "Yahoo" -> "yahoo" [] s = "CoinGecko" -> "coingecko" [] OTHER -> s

\* what the feeds answer during a batch: a price only from the last fallback,
\* or no data at all
WorldDownload ==
    [ctor |-> "",
     fast_info |-> [access |-> "KeyError", last_price |-> NoneV, last_close |-> NoneV,
                    lastPrice |-> NoneV, currency |-> NoneS],
     history |-> Raise("KeyError"), download |-> Val(55), info |-> NoneS]
WorldNoData ==
    [ctor |-> "",
     fast_info |-> [access |-> "falsy", last_price |-> NoneV, last_close |-> NoneV,
                    lastPrice |-> NoneV, currency |-> NoneS],
     history |-> NoneV, download |-> NoneV, info |-> NoneS]
BatchYahooWorlds == {WorldDownload, WorldNoData}
BatchHttpWorlds ==
    {[net |-> TRUE, status |-> 200, body |-> "price", px |-> 55],
     [net |-> TRUE, status |-> 500, body |-> "price", px |-> 55]}

Row(asset, preis, status) == [Asset |-> asset, Preis |-> preis, Status |-> status]

\* line 134-135: `if selected_ids:` is false for None and for an empty list
SelectRows(lst, selected_ids) ==
    IF selected_ids.given /\ selected_ids.ids # {}
    THEN SelectSeq(lst, LAMBDA r : r.id \in selected_ids.ids)
    ELSE lst

\* line 138
SourceOf(r) == Lower(OrS(r.price_source, "manual"))

\* a yahoo branch that undoes the batch's earlier snapshots when its fetch fails
YahooRow_Rollback(r, tbl, rws, res, today) ==
    IF res.ok
    THEN [prices |-> add_price_snapshot(tbl, OrS(r.ticker, r.name), res.price,
                                         res.ccy, "yahoo", today),
          rows |-> Append(rws, Row(r.name, Val(res.price), "yahoo"))]
    ELSE [prices |-> call.prices,
          rows |-> Append(rws, Row(r.name, NoneV, "kein Feed (" \o res.reason \o ")"))]

\* lines 141-147: the yahoo branch of one iteration, given fetch_yahoo's answer
YahooRow(r, tbl, rws, res, today) ==
    IF res.ok
    THEN [prices |-> add_price_snapshot(tbl, OrS(r.ticker, r.name), res.price,
                                         res.ccy, "yahoo", today),
          rows |-> Append(rws, Row(r.name, Val(res.price), "yahoo"))]
    ELSE [prices |-> tbl,
          rows |-> Append(rws, Row(r.name, NoneV, "kein Feed (" \o res.reason \o ")"))]

\* lines 148-155: the coingecko branch, given fetch_coingecko's answer
CoingeckoRow(r, tbl, rws, r2, today) ==
    IF r2 # NoneT
    THEN [prices |-> add_price_snapshot(tbl, OrS(r.ticker, r.name), r2[1], r2[2],
                                         r2[3], today),
          rows |-> Append(rws, Row(r.name, Val(r2[1]), r2[3]))]
    ELSE [prices |-> tbl,
          rows |-> Append(rws, Row(r.name, NoneV, "kein Feed (coingecko)"))]

\* lines 156-157
ManualRow(r, tbl, rws) ==
    [prices |-> tbl, rows |-> Append(rws, Row(r.name, NoneV, "kein Feed (manual)"))]

NoCall ==
    [selected_ids |-> [given |-> FALSE, ids |-> {}], listing |-> <<>>,
     positions |-> <<>>, prices |-> <<>>]

\* a new script run: the frame of the previous run's batch is gone
ForgetBatch ==
    /\ pc' = "idle"
    /\ df' = <<>>
    /\ rows' = <<>>
    /\ call' = NoCall
    /\ fetched' = <<>>

\* line 265: update_prices(ids if ids else None)
ButtonArg(ids) == [given |-> ids # {}, ids |-> ids]

\* lines 245, 262-265 and 133-136: "Preise abrufen" with the multiselect's ids
UpdatePricesEnter ==
    /\ pc \in {"idle", "done"}
    /\ positions # <<>>
    /\ \E ids \in SUBSET {positions[i].id : i \in 1..Len(positions)} :
       \E lst \in fetch_positions(positions) :
          /\ df' = SelectRows(lst, ButtonArg(ids))
          /\ call' = [selected_ids |-> ButtonArg(ids), listing |-> lst,
                      positions |-> positions, prices |-> prices]
    /\ rows' = <<>>
    /\ fetched' = <<>>
    /\ pc' = "loop"
    /\ UNCHANGED <<positions, prices, fin, fout, merged, clock>>

\* the effect of one iteration; answer is what the row's fetch gave:
\* "ok", "failed", or "none" when no fetch was made
Step(r, out, answer) ==
    /\ prices' = out.prices
    /\ rows' = out.rows
    /\ fetched' = Append(fetched, [id |-> r.id, answer |-> answer])
    /\ df' = Tail(df)
    /\ UNCHANGED <<positions, pc, call, fin, fout, merged, clock>>

\* lines 137-157: one iteration of the loop
UpdatePricesRow ==
    /\ pc = "loop"
    /\ df # <<>>
    /\ LET r == Head(df)
       IN  \/ /\ SourceOf(r) = "yahoo"
              /\ \E w \in BatchYahooWorlds :
                    LET res == fetch_yahoo(w)
                    IN  /\ res.ok => Len(prices) < MaxSnapshots
                        /\ Step(r, YahooRow(r, prices, rows, res, clock),
                                IF res.ok THEN "ok" ELSE "failed")
           \/ /\ SourceOf(r) = "coingecko"
              /\ \E w \in BatchHttpWorlds :
                    LET r2 == fetch_coingecko(w, "eur")
                    IN  /\ r2 # NoneT => Len(prices) < MaxSnapshots
                        /\ Step(r, CoingeckoRow(r, prices, rows, r2, clock),
                                IF r2 # NoneT THEN "ok" ELSE "failed")
           \/ /\ SourceOf(r) \notin {"yahoo", "coingecko"}
              /\ Step(r, ManualRow(r, prices, rows), "none")

\* line 159
UpdatePricesReturn ==
    /\ pc = "loop"
    /\ df = <<>>
    /\ pc' = "done"
    /\ UNCHANGED <<positions, prices, df, rows, call, fetched, fin, fout, merged, clock>>

----------------------------------------------------------------------------
(* The forms                                                                *)

\* lines 233-238: "Hinzufügen"
AddPosition ==
    /\ pc \in {"idle", "done"}
    /\ Len(positions) < MaxPositions
    /\ \E form \in Forms, quantity \in Quantities,
          avg_cost \in AvgCosts, src \in FormSources, sym \in PriceSymbols :
          positions' = upsert_position(positions,
              [name |-> form.name, ticker |-> form.ticker, quantity |-> quantity,
               avg_cost |-> avg_cost, currency |-> "EUR", price_source |-> src,
               price_symbol |-> sym])
    /\ ForgetBatch
    /\ UNCHANGED <<prices, fin, fout, merged, clock>>

\* lines 258-259: "Speichern" of one position's source and symbol
SavePriceSettings ==
    /\ pc \in {"idle", "done"}
    /\ \E i \in 1..Len(positions), src \in FormSources, sym \in PriceSymbols :
          positions' = update_position_pricesettings(positions, positions[i].id, src, sym)
    /\ ForgetBatch
    /\ UNCHANGED <<prices, fin, fout, merged, clock>>

\* lines 275-276 and 288-290: the first listed position of the chosen name gets
\* today's price
SaveManualPrice ==
    /\ pc \in {"idle", "done"}
    /\ Len(prices) < MaxSnapshots
    /\ \E lst \in fetch_positions(positions), i \in 1..Len(positions),
          p \in ManualPrices :
          /\ \A j \in 1..(i - 1) : lst[j].name # lst[i].name
          /\ prices' = add_price_snapshot(prices, OrS(lst[i].ticker, lst[i].name), p,
                                          lst[i].currency, "manual", clock)
    /\ ForgetBatch
    /\ UNCHANGED <<positions, fin, fout, merged, clock>>

----------------------------------------------------------------------------
(* The overview                                                             *)

\* line 180: pos["ticker"].where(pos["ticker"].notna(), pos["name"])
JoinKey(p) == IF NotNa(p.ticker) THEN p.ticker ELSE p.name

\* numpy's round: to the nearest integer, a tie to the even one (d > 0)
RoundHalfEven(n, d) ==
    LET q == n \div d
        r == n - q * d
    IN  IF 2 * r < d THEN q
        ELSE IF 2 * r > d THEN q + 1
        ELSE IF q % 2 = 0 THEN q ELSE q + 1

\* line 191: (price - avg_cost) / avg_cost as a float: NaN, an infinity or a number
GainRatio(price, avg_cost) ==
    IF price.st = "none" THEN [kind |-> "nan", n |-> 0, d |-> 1]
    ELSE IF avg_cost = 0
         THEN IF price.v = 0 THEN [kind |-> "nan", n |-> 0, d |-> 1]
              ELSE [kind |-> "inf", n |-> 0, d |-> 1]
    ELSE [kind |-> "num", n |-> price.v - avg_cost, d |-> avg_cost]

\* fillna(0).round(4) without mode.use_inf_as_na: an infinity stays
FillRound_InfKept(x) ==
    IF x.kind = "nan" THEN [kind |-> "num", v |-> 0]
    ELSE IF x.kind = "inf" THEN [kind |-> "inf", v |-> 0]
    ELSE [kind |-> "num", v |-> RoundHalfEven(x.n * 10000, x.d)]

\* lines 190-192: under mode.use_inf_as_na, fillna(0).round(4); in units of 0.0001
FillRound(x) ==
    IF x.kind \in {"nan", "inf"} THEN [kind |-> "num", v |-> 0]
    ELSE [kind |-> "num", v |-> RoundHalfEven(x.n * 10000, x.d)]

\* lines 183-192: the computed columns of one merged row
MergedRow(p, price) ==
    LET px == IF price.st = "none" THEN 0 ELSE price.v
        mw == p.quantity * px
    IN  [id |-> p.id, name |-> p.name, ticker |-> p.ticker, quantity |-> p.quantity,
         avg_cost |-> p.avg_cost, price |-> price, Marktwert |-> mw,
         GewinnVerlust |-> mw - p.quantity * p.avg_cost,
         GewinnPct |-> FillRound(GainRatio(price, p.avg_cost))]

\* line 181: the rows a left merge gives one position
MergeOne(p, lp) ==
    LET m == SelectSeq(lp, LAMBDA r : r.ticker = JoinKey(p))
    IN  IF m = <<>> THEN <<MergedRow(p, NoneV)>>
        ELSE [i \in 1..Len(m) |-> MergedRow(p, Val(m[i].price))]

\* lines 170-192: positions merged with latest_prices
RECURSIVE Overview(_, _)
Overview(pos, lp) ==
    IF pos = <<>> THEN <<>> ELSE MergeOne(Head(pos), lp) \o Overview(Tail(pos), lp)

----------------------------------------------------------------------------
(* The store and the batch update                                           *)

Init ==
    /\ positions = <<>>
    /\ prices = <<>>
    /\ pc = "idle"
    /\ df = <<>>
    /\ rows = <<>>
    /\ call = NoCall
    /\ fetched = <<>>
    /\ fin = [provider |-> "none"]
    /\ fout = [state |-> "pending"]
    /\ merged = <<>>
    /\ clock = Day1

\* midnight passes
NextDay ==
    /\ clock = Day1
    /\ clock' = Day2
    /\ UNCHANGED <<positions, prices, pc, df, rows, call, fetched, fin, fout, merged>>

Next ==
    \/ AddPosition
    \/ SavePriceSettings
    \/ SaveManualPrice
    \/ UpdatePricesEnter
    \/ UpdatePricesRow
    \/ UpdatePricesReturn
    \/ NextDay

Spec == Init /\ [][Next]_vars

----------------------------------------------------------------------------
(* The providers, called once on every answer of the outside world           *)

Pending == [state |-> "pending"]

\* what a caller sees of a call: the value returned, or the exception raised
Outcome(r) ==
    IF IsRaised(r) THEN [state |-> "raised", exc |-> r.raised]
    ELSE [state |-> "returned", value |-> r]

InitFetch ==
    /\ positions = <<>>
    /\ prices = <<>>
    /\ pc = "idle"
    /\ df = <<>>
    /\ rows = <<>>
    /\ call = NoCall
    /\ fetched = <<>>
    /\ fin \in {[provider |-> "yahoo", w |-> w] : w \in YahooWorlds}
               \cup {[provider |-> "coingecko", w |-> w] : w \in HttpWorlds}
    /\ fout = Pending
    /\ merged = <<>>
    /\ clock = Day1

CallYahoo ==
    /\ fout = Pending
    /\ fin.provider = "yahoo"
    /\ fout' = Outcome(fetch_yahoo(fin.w))
    /\ UNCHANGED <<storeVars, fin, merged>>

CallCoingecko ==
    /\ fout = Pending
    /\ fin.provider = "coingecko"
    /\ fout' = [state |-> "returned", value |-> fetch_coingecko(fin.w, "eur")]
    /\ UNCHANGED <<storeVars, fin, merged>>

NextFetch == CallYahoo \/ CallCoingecko

SpecFetch == InitFetch /\ [][NextFetch]_vars

----------------------------------------------------------------------------
(* update_prices, run on every positions table                              *)

\* the tables of n rows that upsert_position builds from the given rows
RECURSIVE TablesOf(_, _)
TablesOf(n, rs) ==
    IF n = 0 THEN {<<>>}
    ELSE {upsert_position(t, r) : t \in TablesOf(n - 1, rs), r \in rs}

BatchRows ==
    [name : Names, ticker : Tickers, quantity : Quantities, avg_cost : AvgCosts,
     currency : {"EUR"}, price_source : Sources, price_symbol : PriceSymbols]

\* the prices tables a batch starts on: empty, or one manual price saved on
\* the first day for one of the positions (lines 288-290)
BatchSnapshots(tbl) ==
    {<<>>} \cup
    {add_price_snapshot(<<>>, OrS(tbl[i].ticker, tbl[i].name), p, tbl[i].currency,
                        "manual", Day1) : i \in 1..Len(tbl), p \in ManualPrices}

InitBatch ==
    /\ positions \in UNION {TablesOf(n, BatchRows) : n \in 1..MaxPositions}
    /\ prices \in BatchSnapshots(positions)
    /\ pc = "idle"
    /\ df = <<>>
    /\ rows = <<>>
    /\ call = NoCall
    /\ fetched = <<>>
    /\ fin = [provider |-> "none"]
    /\ fout = [state |-> "pending"]
    /\ merged = <<>>
    /\ clock \in Dates

\* one batch on each table
BatchOnce ==
    /\ pc = "idle"
    /\ UpdatePricesEnter

NextBatch ==
    \/ BatchOnce
    \/ UpdatePricesRow
    \/ UpdatePricesReturn

SpecBatch == InitBatch /\ [][NextBatch]_vars

----------------------------------------------------------------------------
(* The queries and the overview, on one position and every prices table      *)

ViewQuantities == {0, 5}
ViewAvgCosts == {0, 3, 100}
ViewPrices == {0, 55, 120}

ViewPositions ==
    TablesOf(1, [name : {"acme"}, ticker : Tickers, quantity : ViewQuantities,
                 avg_cost : ViewAvgCosts, currency : {"EUR"},
                 price_source : {"manual"}, price_symbol : {""}])

ViewSnapshots ==
    {add_price_snapshot(<<>>, t, p, "EUR", "manual", d)[1] :
        t \in {"ACM", "acme"}, p \in ViewPrices, d \in Dates}

InitView ==
    /\ positions \in ViewPositions
    /\ prices \in UNION {[1..n -> ViewSnapshots] : n \in 0..MaxSnapshots}
    /\ pc = "idle"
    /\ df = <<>>
    /\ rows = <<>>
    /\ call = NoCall
    /\ fetched = <<>>
    /\ fin = [provider |-> "none"]
    /\ fout = [state |-> "pending"]
    /\ merged = <<>>
    /\ clock = Day2

\* lines 168-192
RenderOverview ==
    /\ \E pos \in fetch_positions(positions) :
          merged' = Overview(pos, latest_prices(prices))
    /\ UNCHANGED <<storeVars, fetchVars>>

NextView == RenderOverview

SpecView == InitView /\ [][NextView]_vars

----------------------------------------------------------------------------
(* Claims about the providers (SpecFetch)                                   *)

Returned == fout.state = "returned"
YahooReturned == fout # Pending /\ fin.provider = "yahoo"

IsYahooSuccess(r) ==
    /\ DOMAIN r = {"ok", "price", "ccy", "provider"}
    /\ r.ok = TRUE
    /\ r.price \in Nat
    /\ r.ccy \in {"EUR", "USD"}
    /\ r.provider = "yahoo"

IsYahooFailure(r) ==
    /\ DOMAIN r = {"ok", "reason"}
    /\ r.ok = FALSE
    /\ r.reason # ""

IsCoingeckoSuccess(r) ==
    /\ Len(r) = 3
    /\ r[1] \in Nat
    /\ r[2] = "EUR"
    /\ r[3] = "coingecko"

\* C1: a fetch call never raises to its caller: whatever each step of
\* fetch_yahoo does (a price, nothing, an exception, also one from building the
\* ticker object) it returns a success carrying price, currency and provider or
\* a failure carrying a reason; whatever the HTTP call does, fetch_coingecko
\* returns a (price, currency, provider) triple or its failure value None.
C1_FetchNeverRaises ==
    fout # Pending =>
        /\ fout.state = "returned"
        /\ fin.provider = "yahoo" =>
              IsYahooSuccess(fout.value) \/ IsYahooFailure(fout.value)
        /\ fin.provider = "coingecko" =>
              fout.value = NoneT \/ IsCoingeckoSuccess(fout.value)

\* all three attempts raise and the call still returns a failure
C1_Witness ==
    /\ YahooReturned
    /\ fin.w.ctor = ""
    /\ fin.w.fast_info.access \in ExcTypes
    /\ fin.w.history.st = "raise"
    /\ fin.w.download.st = "raise"
    /\ Returned
    /\ IsYahooFailure(fout.value)

AttemptSteps == <<"fast_info", "history", "download">>

Attempted(w, step) == \E i \in 1..Len(YahooCalls(w)) : YahooCalls(w)[i] = step

\* the exception the quote attempt ends with ("" when it ends normally): the
\* attribute read, then the lookups of the `or` chain up to the first truthy
\* one, then the currency lookup
QuoteExc(w) ==
    LET fi == w.fast_info
        ccy == IF fi.currency.st = "raise" THEN fi.currency.exc ELSE ""
    IN  IF fi.access = "falsy" THEN ""
        ELSE IF fi.access # "ok" THEN fi.access
        ELSE IF fi.last_price.st = "raise" THEN fi.last_price.exc
        ELSE IF Truthy(fi.last_price) THEN ccy
        ELSE IF fi.last_close.st = "raise" THEN fi.last_close.exc
        ELSE IF Truthy(fi.last_close) THEN ccy
        ELSE IF fi.lastPrice.st = "raise" THEN fi.lastPrice.exc
        ELSE ccy

\* the price the quote attempt has read by the time it ends (None when none)
QuotePrice(w) ==
    LET fi == w.fast_info
    IN  IF fi.access # "ok" THEN NoneV
        ELSE IF fi.last_price.st = "raise" THEN NoneV
        ELSE IF Truthy(fi.last_price) THEN fi.last_price
        ELSE IF fi.last_close.st = "raise" THEN NoneV
        ELSE IF Truthy(fi.last_close) THEN fi.last_close
        ELSE IF fi.lastPrice.st = "raise" THEN NoneV
        ELSE fi.lastPrice

\* what an attempt has in hand when it ends, raising or not
StepPrice(w, step) ==
    CASE step = "fast_info" -> QuotePrice(w)
      [] step = "history" -> IF w.history.st = "val" THEN w.history ELSE NoneV
      [] step = "download" -> IF w.download.st = "val" THEN w.download ELSE NoneV

StepRaises(w, step) ==
    CASE step = "fast_info" -> QuoteExc(w) # ""
      [] step = "history" -> w.history.st = "raise"
      [] step = "download" -> w.download.st = "raise"

\* the fallback order, stated over a notion Gave(w, i) of "attempt i gave a price"
FallbackOrder(w, res, Gave(_, _)) ==
    LET att(i) == Attempted(w, AttemptSteps[i])
    IN  /\ SelectSeq(YahooCalls(w), LAMBDA c : c # "info")
              = SubSeq(AttemptSteps, 1, Cardinality({i \in 1..3 : att(i)}))
        /\ att(2) => ~Gave(w, 1)
        /\ att(3) => ~Gave(w, 1) /\ ~Gave(w, 2)
        /\ res.ok <=> \E i \in 1..3 : Gave(w, i)
        /\ res.ok =>
              \E i \in 1..3 :
                 /\ Gave(w, i)
                 /\ \A j \in 1..(i - 1) : ~Gave(w, j)
                 /\ res.price = StepPrice(w, AttemptSteps[i]).v

\* a step that raises counts as giving no price
GaveUnlessRaised(w, i) ==
    /\ Attempted(w, AttemptSteps[i])
    /\ ~StepRaises(w, AttemptSteps[i])
    /\ StepPrice(w, AttemptSteps[i]).st = "val"

\* a step gave a price when it had read one, also when it raised afterwards
GaveRead(w, i) ==
    /\ Attempted(w, AttemptSteps[i])
    /\ StepPrice(w, AttemptSteps[i]).st = "val"

\* C7 as claimed: the steps run in the order quote, history, bulk download, a
\* later one only when the earlier ones gave no price, a step that raises
\* counting as giving none; the fetch succeeds exactly when a step gave a
\* price and returns the price of the first that did.
C7_Original ==
    (YahooReturned /\ Returned) => FallbackOrder(fin.w, fout.value, GaveUnlessRaised)

\* C7 as amended: the same, where a step gave a price when it read one before
\* it ended: the quote step that reads a price and then raises on the currency
\* lookup has given its price, and no fallback runs.
C7_FallbackOrder ==
    (YahooReturned /\ Returned) => FallbackOrder(fin.w, fout.value, GaveRead)

\* quote and history raise, the bulk download gives 55
C7_Witness ==
    /\ YahooReturned
    /\ Returned
    /\ fin.w.ctor = ""
    /\ fin.w.fast_info.access \in ExcTypes
    /\ fin.w.history.st = "raise"
    /\ fin.w.download = Val(55)
    /\ fout.value.ok
    /\ fout.value.price = 55

AllThreeFailed(w) ==
    /\ w.ctor = ""
    /\ \A i \in 1..3 : Attempted(w, AttemptSteps[i]) /\ ~GaveRead(w, i)

\* the labels a tag for an attempt that returned no data could carry
NoDataLabels == {"no data", "empty", "None"}

TagsOf(w, step) ==
    CASE step = "fast_info" ->
            IF QuoteExc(w) # "" THEN {Tag(step, QuoteExc(w))}
            ELSE {Tag(step, l) : l \in NoDataLabels}
      [] step = "history" ->
            IF w.history.st = "raise" THEN {Tag(step, w.history.exc)}
            ELSE {Tag(step, l) : l \in NoDataLabels}
      [] step = "download" ->
            IF w.download.st = "raise" THEN {Tag(step, w.download.exc)}
            ELSE {Tag(step, l) : l \in NoDataLabels}

\* C8 as claimed: when all three attempts give no price, by raising or by
\* returning no data, the reason is one tag per failed attempt, concatenated in
\* attempt order.
C8_Original ==
    (YahooReturned /\ Returned /\ AllThreeFailed(fin.w)) =>
        /\ ~fout.value.ok
        /\ fout.value.reason \in
              {a \o b \o c : a \in TagsOf(fin.w, "fast_info"),
                             b \in TagsOf(fin.w, "history"),
                             c \in TagsOf(fin.w, "download")}

RaiseTag(w, step) ==
    CASE step = "fast_info" -> IF QuoteExc(w) # "" THEN Tag(step, QuoteExc(w)) ELSE ""
      [] step = "history" ->
            IF w.history.st = "raise" THEN Tag(step, w.history.exc) ELSE ""
      [] step = "download" ->
            IF w.download.st = "raise" THEN Tag(step, w.download.exc) ELSE ""

\* C8 as amended: when all three attempts give no price, the reason is one tag
\* per attempt that raised, concatenated in attempt order; an attempt that
\* returned no data leaves no tag, and when none raised the reason is "no data".
C8_ReasonTags ==
    (YahooReturned /\ Returned /\ AllThreeFailed(fin.w)) =>
        LET tags == RaiseTag(fin.w, "fast_info") \o RaiseTag(fin.w, "history")
                        \o RaiseTag(fin.w, "download")
        IN  /\ ~fout.value.ok
            /\ fout.value.reason = IF tags = "" THEN "no data" ELSE tags

\* history raises, the quote and the bulk download return no data
C8_Witness ==
    /\ YahooReturned
    /\ Returned
    /\ AllThreeFailed(fin.w)
    /\ fin.w.fast_info.access = "falsy"
    /\ fin.w.history = Raise("HTTPError")
    /\ fin.w.download.st = "none"
    /\ fout.value.reason = "[history:HTTPError] "

----------------------------------------------------------------------------
(* Claims about the store and the batch update (Spec, SpecBatch, SpecView)   *)

\* the symbol a position's snapshots are written under: lines 144, 152, 290
SymbolOf(p) == OrS(p.ticker, p.name)

Count(tbl, t) == Cardinality({i \in 1..Len(tbl) : tbl[i].ticker = t})

PositionById(tbl, id) == tbl[CHOOSE i \in 1..Len(tbl) : tbl[i].id = id]

\* C2: snapshots are append-only: every step keeps each existing row of prices
\* as it is and in its place, and a successful fetch or a manual save adds
\* exactly one row, under the symbol of the position it is for.
C2_AppendOnly ==
    [][/\ Len(prices') >= Len(prices)
       /\ SubSeq(prices', 1, Len(prices)) = prices
       /\ (Len(fetched') = Len(fetched) + 1 /\ fetched'[Len(fetched')].answer = "ok") =>
             /\ Len(prices') = Len(prices) + 1
             /\ Count(prices', SymbolOf(Head(df))) = Count(prices, SymbolOf(Head(df))) + 1
       /\ SaveManualPrice =>
             /\ Len(prices') = Len(prices) + 1
             /\ \E i \in 1..Len(positions) :
                   Count(prices', SymbolOf(positions[i]))
                       = Count(prices, SymbolOf(positions[i])) + 1
      ]_vars

\* a manual save and then a successful fetch on the same symbol and day
C2_Witness ==
    /\ Len(prices) = 2
    /\ prices[1].source = "manual"
    /\ prices[2].source = "yahoo"
    /\ prices[1].ticker = prices[2].ticker
    /\ prices[1].asof = prices[2].asof
    /\ Len(fetched) = 1
    /\ fetched[1].answer = "ok"

\* C3: during and after a batch update the store differs from the store at
\* entry only by one appended snapshot per iterated position whose fetch
\* succeeded, in iteration order and under that position's symbol; a failed
\* fetch, a manual source and an unrecognised source append nothing, positions
\* is untouched, and rows appended earlier stay when a later fetch fails.
C3_BatchFrame ==
    pc \in {"loop", "done"} =>
        LET oks == SelectSeq(fetched, LAMBDA f : f.answer = "ok")
            n0 == Len(call.prices)
        IN  /\ positions = call.positions
            /\ Len(prices) = n0 + Len(oks)
            /\ SubSeq(prices, 1, n0) = call.prices
            /\ \A k \in 1..Len(oks) :
                  prices[n0 + k].ticker = SymbolOf(PositionById(positions, oks[k].id))
            /\ \A k \in 1..Len(fetched) :
                  LET p == PositionById(positions, fetched[k].id)
                  IN  p.price_source \notin {"yahoo", "coingecko"} =>
                         fetched[k].answer = "none"

\* a batch on a table that held a snapshot, whose first fetch succeeded and
\* whose second failed, finished
C3_Witness ==
    /\ pc = "done"
    /\ Len(call.prices) = 1
    /\ Len(fetched) = 2
    /\ fetched[1].answer = "ok"
    /\ fetched[2].answer = "failed"
    /\ Len(prices) = Len(call.prices) + 1

NameAscending(lst) ==
    \A i, j \in 1..Len(lst) :
        i < j => ~BytesLess(NameBytes(lst[j].name), NameBytes(lst[i].name))

\* the positions a batch is to process, in listing order
Processed ==
    IF call.selected_ids.given
    THEN SelectSeq(call.listing, LAMBDA r : r.id \in call.selected_ids.ids)
    ELSE call.listing

\* C4: a finished batch update returned one row per processed position (all
\* positions when no subset was chosen, else those whose id is in the subset),
\* in the name-ascending order of the listing; a position whose source is
\* manual or unrecognised has the row (name, no price, "kein Feed (manual)"),
\* and a feed position's row has a price exactly when its own fetch succeeded.
C4_ResultRows ==
    pc = "done" =>
        /\ NameAscending(call.listing)
        /\ Len(call.listing) = Len(positions)
        /\ {call.listing[i] : i \in 1..Len(call.listing)}
              = {positions[i] : i \in 1..Len(positions)}
        /\ Len(rows) = Len(Processed)
        /\ Len(fetched) = Len(Processed)
        /\ \A k \in 1..Len(Processed) :
              LET p == Processed[k]
                  a == fetched[k].answer
              IN  /\ rows[k].Asset = p.name
                  /\ fetched[k].id = p.id
                  /\ p.price_source \notin {"yahoo", "coingecko"} =>
                        rows[k] = Row(p.name, NoneV, "kein Feed (manual)")
                  /\ p.price_source \in {"yahoo", "coingecko"} =>
                        /\ a # "none"
                        /\ rows[k].Preis.st = "val" <=> a = "ok"
                        /\ a = "ok" => rows[k].Status = p.price_source

\* "acme" was added before "BTC"; the batch lists BTC first, BTC's fetch gave a
\* price and acme, a manual position, has the no-feed row
C4_Witness ==
    /\ pc = "done"
    /\ Len(positions) = 2
    /\ positions[1].name = "acme"
    /\ positions[2].name = "BTC"
    /\ positions[1].price_source = "manual"
    /\ Len(rows) = 2
    /\ rows[1].Asset = "BTC"
    /\ rows[1].Preis.st = "val"
    /\ rows[2] = Row("acme", NoneV, "kein Feed (manual)")

\* the date an asof column value stands for
DateOf(a) == CHOOSE d \in Dates : isoformat(d) = a

DateLess(a, b) ==
    \/ a.year < b.year
    \/ a.year = b.year /\ a.month < b.month
    \/ a.year = b.year /\ a.month = b.month /\ a.day < b.day

\* C5: whatever the order of insertion, latest_prices returns for a symbol only
\* rows whose date no snapshot of the symbol is later than, and returns a row
\* for every symbol that has a snapshot.
C5_LatestIsMaxDate ==
    LET lp == latest_prices(prices)
    IN  /\ \A i \in 1..Len(lp), j \in 1..Len(prices) :
              prices[j].ticker = lp[i].ticker =>
                 ~DateLess(DateOf(lp[i].asof), DateOf(prices[j].asof))
        /\ \A j \in 1..Len(prices) : \E i \in 1..Len(lp) : lp[i].ticker = prices[j].ticker

\* the later day's snapshot was inserted first, is the one returned, and its
\* price is the one the overview shows
C5_Witness ==
    /\ Len(prices) = 2
    /\ prices[1].ticker = prices[2].ticker
    /\ prices[1].price # prices[2].price
    /\ DateLess(DateOf(prices[2].asof), DateOf(prices[1].asof))
    /\ Len(latest_prices(prices)) = 1
    /\ latest_prices(prices)[1].asof = prices[1].asof
    /\ Len(merged) = 1
    /\ merged[1].price = Val(prices[1].price)

\* C6 as claimed: latest_prices returns exactly one row for each symbol that
\* has a snapshot, also when several of its snapshots share the latest date.
C6_OnePerSymbol ==
    LET lp == latest_prices(prices)
    IN  \A j \in 1..Len(prices) :
           Cardinality({i \in 1..Len(lp) : lp[i].ticker = prices[j].ticker}) = 1

\* C10 as claimed: a position that has a snapshot saved under its symbol
\* (ticker if non-empty, else name) is shown with a price in the overview.
C10_PriceShown ==
    \A pos \in fetch_positions(positions) :
       LET ov == Overview(pos, latest_prices(prices))
       IN  \A i \in 1..Len(positions) :
              Count(prices, SymbolOf(positions[i])) > 0 =>
                 \A k \in 1..Len(ov) :
                    ov[k].id = positions[i].id => ov[k].price.st = "val"

----------------------------------------------------------------------------
(* Claims about the overview (SpecView)                                     *)

\* C9 as claimed: gain percent is 0 when the average cost is 0 or the price is
\* missing, and otherwise exactly (price - avg_cost) / avg_cost.
C9_Original ==
    \A k \in 1..Len(merged) :
       LET m == merged[k]
       IN  /\ m.GewinnPct.kind = "num"
           /\ IF m.avg_cost = 0 \/ m.price.st = "none"
              THEN m.GewinnPct.v = 0
              ELSE m.GewinnPct.v * m.avg_cost = (m.price.v - m.avg_cost) * 10000

\* C9 as amended: gain percent is 0 when the average cost is 0 or the price is
\* missing, and otherwise (price - avg_cost) / avg_cost rounded to four
\* decimal places: the multiple of 0.0001 nearest to the quotient.
C9_GainPercent ==
    \A k \in 1..Len(merged) :
       LET m == merged[k]
           err == m.GewinnPct.v * m.avg_cost - (m.price.v - m.avg_cost) * 10000
       IN  /\ m.GewinnPct.kind = "num"
           /\ IF m.avg_cost = 0 \/ m.price.st = "none"
              THEN m.GewinnPct.v = 0
              ELSE 2 * err <= m.avg_cost /\ -2 * err <= m.avg_cost

\* a position of average cost 0 rendered with a price above 0
C9_Witness ==
    \E k \in 1..Len(merged) :
       /\ merged[k].avg_cost = 0
       /\ merged[k].price = Val(55)
       /\ merged[k].GewinnPct = [kind |-> "num", v |-> 0]

=============================================================================
